---- MODULE Spec2Model ----
(***************************************************************************)
(* django-notifier-plus: the notification catalogue (Backend,              *)
(* Notification), the preference tables (UserPrefs, GroupPrefs), the       *)
(* resolution of a user's backends (Notification.get_backends), the        *)
(* preference upserts (update_user_prefs / update_group_prefs) and the     *)
(* dispatch loop (Notification.send / Backend.send).                       *)
(***************************************************************************)
EXTENDS Integers, Sequences, FiniteSets, TLC

VARIABLES
    Backend,            \* table Backend: name -> [enabled, display_name]
    Notification,       \* table Notification: name -> [default_notify, permissions, backends]
    UserPrefs,          \* table UserPrefs: <<user, notification, backend>> -> [notify]
    GroupPrefs,         \* table GroupPrefs: <<group, notification, backend>> -> [notify]
    SentNotification,   \* table SentNotification: the sequence of rows, in insertion order
    groups,             \* user.groups: user -> set of groups
    user_perms,         \* the permissions user.has_perms answers for: user -> set
    saves,              \* how many times a preference row was saved (each save
                        \* stamps the row's `updated` with now())
    last,               \* what the caller of the last observed call (of
                        \* update_preferences, of the catalogue, of a deletion)
                        \* kept of it: the function, its subject and outcome
    call,               \* the frame of the running send_notification call
    procs               \* the frames of the concurrent update_preferences requests

vars == <<Backend, Notification, UserPrefs, GroupPrefs, SentNotification,
          groups, user_perms, saves, last, call, procs>>

----------------------------------------------------------------------------
(* Bounds of the model *)

\* the largest number of saves of preference rows
MaxSaves == 2
\* the largest number of entries of a prefs_dict
MaxPrefs == 2
\* the largest number of SentNotification rows
MaxSent == 4
\* the largest number of preference rows present when two concurrent
\* update_preferences requests arrive
MaxRows == 1

----------------------------------------------------------------------------
(* The universe *)

Users == {"u1", "u2"}
Groups == {"g1", "g2"}
Perms == {"p1"}
\* notifier_settings.BACKEND_CLASSES, by name, in order
BACKEND_CLASSES == <<"email", "sms">>
\* klass.display_name of each class of BACKEND_CLASSES; it stands for the
\* attributes create_backends derives from the class (display_name,
\* description, klass)
DisplayNames == [email |-> "Email", sms |-> "SMS"]
BackendNames == {BACKEND_CLASSES[i] : i \in DOMAIN BACKEND_CLASSES}
\* a codename no Permission row carries
UnknownPerm == "ghost"
NotifNames == {"billing"}
None == "None"

\* user.groups: u1 is in g1 alone, u2 is in no group, g2 has no member
Memberships == {m \in [Users -> SUBSET Groups] : m["u1"] = {"g1"} /\ m["u2"] = {}}
\* what user.has_perms answers from: u1 holds p1, u2 holds no permission
Holdings == {h \in [Users -> SUBSET Perms] : h["u1"] = Perms /\ h["u2"] = {}}

\* the empty dict
EmptyDict == [x \in {} |-> TRUE]
\* no update_preferences request is being served concurrently
NoRequests == [frames |-> EmptyDict, base |-> EmptyDict]

\* no update_preferences call has been observed yet; else the function that
\* ran, whom it ran for, "ok" or the exception it raised, and the dict it
\* returned
NoCall == [op |-> "none", subject |-> None, outcome |-> "none", ret |-> EmptyDict]

\* the rows of a queryset of backends, ordered by id: create_backends saves
\* the rows in the order of BACKEND_CLASSES
RECURSIVE OrderedFrom(_, _)
OrderedFrom(S, i) ==
    IF i > Len(BACKEND_CLASSES) THEN <<>>
    ELSE IF BACKEND_CLASSES[i] \in S
         THEN <<BACKEND_CLASSES[i]>> \o OrderedFrom(S, i + 1)
         ELSE OrderedFrom(S, i + 1)
Ordered(S) == OrderedFrom(S, 1)

----------------------------------------------------------------------------
(* Notification.check_perms and Notification.get_backends *)

\* user.has_perms(perm_list): the user holds every permission of the list
has_perms(user, perm_list) == perm_list \subseteq user_perms[user]

check_perms(n, user) ==
    IF ~ has_perms(user, Notification[n].permissions) THEN FALSE ELSE TRUE

\* self.userprefs_set.filter(user=user): the keys of the user's rows for n
user_settings(n, user) ==
    {k \in DOMAIN UserPrefs : k[1] = user /\ k[2] = n}

\* group_filter is Q() or-ed with one Q(group=g) per group of the user; the
\* empty Q() filters nothing, so a user without groups selects every row of n
group_settings(n, user) ==
    IF groups[user] = {}
    THEN {k \in DOMAIN GroupPrefs : k[2] = n}
    ELSE {k \in DOMAIN GroupPrefs : k[2] = n /\ k[1] \in groups[user]}

\* enabled_backends without its filter(enabled=True)
enabled_backends_unfiltered(n) ==
    {b \in Notification[n].backends : b \in DOMAIN Backend}

\* self.backends.filter(enabled=True)
enabled_backends(n) ==
    {b \in Notification[n].backends : b \in DOMAIN Backend /\ Backend[b].enabled}

\* backend_notify with check_perms as a gate: a user who does not pass it is
\* notified on no backend
backend_notify_permitted(n, user, b) ==
    LET us == {k \in user_settings(n, user) : k[3] = b}
        gs == {k \in group_settings(n, user) : k[3] = b}
    IN  IF ~ check_perms(n, user)
        THEN [exc |-> "none", notify |-> FALSE]
        ELSE IF us # {}
        THEN [exc |-> "none", notify |-> UserPrefs[CHOOSE k \in us : TRUE].notify]
        ELSE IF gs = {}
             THEN [exc |-> "none", notify |-> Notification[n].default_notify]
             ELSE IF Cardinality(gs) > 1
                  THEN [exc |-> "MultipleObjectsReturned", notify |-> FALSE]
                  ELSE [exc |-> "AttributeError", notify |-> FALSE]

\* the body of the loop of get_backends for one backend: the value of
\* `notify`, or the exception that leaves the loop
backend_notify(n, user, b) ==
    LET us == {k \in user_settings(n, user) : k[3] = b}
        gs == {k \in group_settings(n, user) : k[3] = b}
    IN  IF us # {}
        THEN [exc |-> "none", notify |-> UserPrefs[CHOOSE k \in us : TRUE].notify]
        ELSE IF gs = {}
             THEN [exc |-> "none", notify |-> Notification[n].default_notify]
             ELSE IF Cardinality(gs) > 1
                  THEN [exc |-> "MultipleObjectsReturned", notify |-> FALSE]
                  \* group_settings.get(...) found its row; group_settings.notify
                  \* reads an attribute the queryset does not have
                  ELSE [exc |-> "AttributeError", notify |-> FALSE]

\* get_backends(user): [exc, backends]; the first backend, in queryset
\* order, whose lookup raises ends the call
get_backends(n, user) ==
    LET cand == Ordered(enabled_backends(n))
        bad == {i \in DOMAIN cand : backend_notify(n, user, cand[i]).exc # "none"}
    IN  IF bad # {}
        THEN LET i == CHOOSE j \in bad : \A h \in bad : j <= h
             IN  [exc |-> backend_notify(n, user, cand[i]).exc, backends |-> {}]
        ELSE [exc |-> "none",
              backends |-> {b \in enabled_backends(n) :
                                backend_notify(n, user, b).notify}]

----------------------------------------------------------------------------
(* Initial state: the tables as the migrations leave them, empty *)

Init ==
    /\ Backend = EmptyDict
    /\ Notification = EmptyDict
    /\ UserPrefs = EmptyDict
    /\ GroupPrefs = EmptyDict
    /\ SentNotification = <<>>
    /\ groups \in Memberships
    /\ user_perms \in Holdings
    /\ saves = 0
    /\ last = NoCall
    /\ call = [pc |-> "idle"]
    /\ procs = NoRequests

\* get_user_prefs(user): [exc, dict]; the dict has a key for each enabled
\* backend of the notification, True for those get_backends returns
get_user_prefs(n, user) ==
    LET all_backends == enabled_backends(n)
        selected_backends == get_backends(n, user)
    IN  IF selected_backends.exc # "none"
        THEN [exc |-> selected_backends.exc, dict |-> EmptyDict]
        ELSE [exc |-> "none",
              dict |-> [b \in all_backends |-> b \in selected_backends.backends]]

----------------------------------------------------------------------------
(* create_backends, and the operator's edit of Backend.enabled *)

\* create_backends that sets enabled = True on every row it saves
saved_backends_enabled(tbl) ==
    [b \in BackendNames |-> [enabled |-> TRUE, display_name |-> DisplayNames[b]]]

\* the table create_backends leaves: get-or-new each class of BACKEND_CLASSES;
\* a new row has enabled = True, an existing row keeps its enabled; the
\* attributes derived from the class are written on every row
saved_backends(tbl) ==
    [b \in BackendNames |->
        [enabled |-> IF b \in DOMAIN tbl THEN tbl[b].enabled ELSE TRUE,
         display_name |-> DisplayNames[b]]]

create_backends_step ==
    /\ Backend' = saved_backends(Backend)
    /\ UNCHANGED <<Notification, UserPrefs, GroupPrefs, SentNotification,
                   groups, user_perms, saves, call, procs>>

create_backends == create_backends_step /\ UNCHANGED last

\* the operator's edit of the enabled flag of a row
set_enabled(b, v) ==
    /\ b \in DOMAIN Backend
    /\ Backend[b].enabled # v
    /\ Backend' = [Backend EXCEPT ![b].enabled = v]
    /\ UNCHANGED <<Notification, UserPrefs, GroupPrefs, SentNotification,
                   groups, user_perms, saves, last, call, procs>>

\* the operator's edit of an attribute that create_backends derives from the
\* class
set_display_name(b, v) ==
    /\ b \in DOMAIN Backend
    /\ Backend[b].display_name # v
    /\ Backend' = [Backend EXCEPT ![b].display_name = v]
    /\ UNCHANGED <<Notification, UserPrefs, GroupPrefs, SentNotification,
                   groups, user_perms, saves, last, call, procs>>
----------------------------------------------------------------------------
(* shortcuts.create_notification *)

\* _get_permission_queryset: Permission.objects.filter(codename__in=permissions)
_get_permission_queryset(permissions) == permissions \cap Perms

\* _get_backend_queryset: Backend.objects.filter(name__in=backends)
_get_backend_queryset(backends) == backends \cap DOMAIN Backend

\* Backend.objects.all(): the filter on enabled left out
Backend_filter_none == DOMAIN Backend

\* Backend.objects.filter(enabled=True), evaluated when the call adds or sets
\* the backends of the notification
Backend_filter_enabled == {b \in DOMAIN Backend : Backend[b].enabled}

\* create_notification whose update branch adds to the associations the
\* notification has (add in place of set)
create_notification_merging(tbl, name, permissions, backends, default_notify) ==
    LET bs == IF backends # {}
              THEN _get_backend_queryset(backends)
              ELSE Backend_filter_enabled
        ps == IF permissions # {}
              THEN _get_permission_queryset(permissions)
              ELSE {}
    IN  IF name \notin DOMAIN tbl
        THEN tbl @@ (name :> [default_notify |-> default_notify,
                              permissions |-> ps, backends |-> bs])
        ELSE [tbl EXCEPT ![name] =
                 [default_notify |-> default_notify,
                  permissions |-> tbl[name].permissions \cup ps,
                  backends |-> tbl[name].backends \cup bs]]

\* The arguments `permissions` and `backends` are sets of names; the empty
\* set stands for an omitted (None) or empty argument, which the code treats
\* alike (`if backends:`). The table of notifications the call leaves, from
\* the table tbl:
create_notification_on(tbl, name, permissions, backends, default_notify) ==
    LET bs == IF backends # {}
              THEN _get_backend_queryset(backends)
              ELSE Backend_filter_enabled
        ps == IF permissions # {}
              THEN _get_permission_queryset(permissions)
              ELSE {}
        row == [default_notify |-> default_notify, permissions |-> ps, backends |-> bs]
    IN  IF name \notin DOMAIN tbl
        THEN \* Notification.objects.create, permissions.add, backends.add
             tbl @@ (name :> row)
        ELSE \* permissions.set, backends.set, save
             [tbl EXCEPT ![name] = row]

create_notification_step(name, permissions, backends, default_notify) ==
    /\ Notification' = create_notification_on(Notification, name, permissions,
                                               backends, default_notify)
    /\ UNCHANGED <<Backend, UserPrefs, GroupPrefs, SentNotification,
                   groups, user_perms, saves, call, procs>>

create_notification(name, permissions, backends, default_notify) ==
    /\ create_notification_step(name, permissions, backends, default_notify)
    /\ UNCHANGED last

----------------------------------------------------------------------------
(* Notification.update_user_prefs, update_group_prefs, and                 *)
(* shortcuts.update_preferences                                            *)

\* the keys of a prefs_dict: names of backend classes (a name whose Backend row
\* create_backends has not yet saved is unknown to Backend.objects.get)
PrefKeys == BackendNames

\* a prefs_dict with at least one item: its items, in the dict's order; no
\* key twice
PrefsDicts ==
    {pd \in UNION {[1..k -> PrefKeys \X BOOLEAN] : k \in 1..MaxPrefs} :
        \A i, j \in DOMAIN pd : i # j => pd[i][1] # pd[j][1]}

\* UserPrefs.save without its check_perms test
UserPrefs_save_unchecked(n, user) == "none"

\* UserPrefs.save: PermissionDenied unless the notification's check_perms
\* passes, else the row is written
UserPrefs_save(n, user) ==
    IF ~ check_perms(n, user) THEN "PermissionDenied" ELSE "none"

\* the frame of a running update_*_prefs call: the table, the saves, the result
\* dict and the exception that ended the call
Frame(tbl, n_saves) == [tbl |-> tbl, saves |-> n_saves, result |-> EmptyDict, exc |-> "none"]

\* one pass of the loop of update_user_prefs
user_prefs_item(st, n, user, key, value) ==
    LET k == <<user, n, key>>
    IN  IF key \notin DOMAIN Backend
        THEN [st EXCEPT !.exc = "Backend.DoesNotExist"]
        ELSE IF k \notin DOMAIN st.tbl
        THEN \* UserPrefs.objects.create
             IF UserPrefs_save(n, user) # "none"
             THEN [st EXCEPT !.exc = UserPrefs_save(n, user)]
             ELSE [st EXCEPT
                     !.tbl = st.tbl @@ (k :> [notify |-> value]),
                     !.saves = st.saves + 1,
                     !.result = (key :> "created") @@ st.result]
        ELSE IF st.tbl[k].notify # value
        THEN IF UserPrefs_save(n, user) # "none"
             THEN [st EXCEPT !.exc = UserPrefs_save(n, user)]
             ELSE [st EXCEPT
                     !.tbl = [st.tbl EXCEPT ![k] = [notify |-> value]],
                     !.saves = st.saves + 1,
                     !.result = (key :> "updated") @@ st.result]
        ELSE st

RECURSIVE user_prefs_loop(_, _, _, _, _)
user_prefs_loop(st, n, user, prefs_dict, i) ==
    IF i > Len(prefs_dict) \/ st.exc # "none" THEN st
    ELSE user_prefs_loop(
             user_prefs_item(st, n, user, prefs_dict[i][1], prefs_dict[i][2]),
             n, user, prefs_dict, i + 1)

\* update_user_prefs on a given table: the frame the call ends in
update_user_prefs(tbl, n_saves, n, user, prefs_dict) ==
    user_prefs_loop(Frame(tbl, n_saves), n, user, prefs_dict, 1)

\* group_prefs_item without `if grouppref.notify != value`: a row that exists
\* is saved whatever its value
group_prefs_item_always_saves(st, n, group, key, value) ==
    LET k == <<group, n, key>>
    IN  IF key \notin DOMAIN Backend
        THEN [st EXCEPT !.exc = "Backend.DoesNotExist"]
        ELSE IF k \notin DOMAIN st.tbl
        THEN [st EXCEPT
                !.tbl = st.tbl @@ (k :> [notify |-> value]),
                !.saves = st.saves + 1,
                !.result = (key :> "created") @@ st.result]
        ELSE [st EXCEPT
                !.tbl = [st.tbl EXCEPT ![k] = [notify |-> value]],
                !.saves = st.saves + 1,
                !.result = (key :> "updated") @@ st.result]

\* one pass of the loop of update_group_prefs: no permission check
group_prefs_item(st, n, group, key, value) ==
    LET k == <<group, n, key>>
    IN  IF key \notin DOMAIN Backend
        THEN [st EXCEPT !.exc = "Backend.DoesNotExist"]
        ELSE IF k \notin DOMAIN st.tbl
        THEN [st EXCEPT
                !.tbl = st.tbl @@ (k :> [notify |-> value]),
                !.saves = st.saves + 1,
                !.result = (key :> "created") @@ st.result]
        ELSE IF st.tbl[k].notify # value
        THEN [st EXCEPT
                !.tbl = [st.tbl EXCEPT ![k] = [notify |-> value]],
                !.saves = st.saves + 1,
                !.result = (key :> "updated") @@ st.result]
        ELSE st

RECURSIVE group_prefs_loop(_, _, _, _, _)
group_prefs_loop(st, n, group, prefs_dict, i) ==
    IF i > Len(prefs_dict) \/ st.exc # "none" THEN st
    ELSE group_prefs_loop(
             group_prefs_item(st, n, group, prefs_dict[i][1], prefs_dict[i][2]),
             n, group, prefs_dict, i + 1)

update_group_prefs(tbl, n_saves, n, group, prefs_dict) ==
    group_prefs_loop(Frame(tbl, n_saves), n, group, prefs_dict, 1)

\* who update_preferences may be called for: a User, a Group, or an object
\* that is neither
Subjects == Users \cup Groups \cup {"other"}

\* update_preferences(name, user, prefs_dict), as a function of the tables:
\* the function that ran, how the call ended, what it returned, and the
\* tables it leaves. A call that raises keeps the rows it wrote before the
\* exception: nothing wraps the loop in a transaction.
update_preferences_call(name, subject, prefs_dict) ==
    LET over(op, st_user, st_group, n_saves, outcome, ret) ==
            [op |-> op, subject |-> subject, outcome |-> outcome, ret |-> ret,
             UserPrefs |-> st_user, GroupPrefs |-> st_group, saves |-> n_saves]
        ended(op, st, st_user, st_group) ==
            over(op, st_user, st_group, st.saves,
                 IF st.exc = "none" THEN "ok" ELSE st.exc,
                 IF st.exc = "none" THEN st.result ELSE EmptyDict)
        user_call(st) == ended("update_user_prefs", st, st.tbl, GroupPrefs)
        group_call(st) == ended("update_group_prefs", st, UserPrefs, st.tbl)
    IN  IF name \notin DOMAIN Notification
        THEN over("update_preferences", UserPrefs, GroupPrefs, saves,
                  "Notification.DoesNotExist", EmptyDict)
        ELSE IF subject \in Users
        THEN user_call(update_user_prefs(UserPrefs, saves, name, subject, prefs_dict))
        ELSE IF subject \in Groups
        THEN group_call(update_group_prefs(GroupPrefs, saves, name, subject, prefs_dict))
        ELSE \* neither branch of the isinstance test: the function returns None
             over("update_preferences", UserPrefs, GroupPrefs, saves,
                  "returned None", EmptyDict)

\* what the caller of update_preferences saw
Returned(c) == [op |-> c.op, subject |-> c.subject, outcome |-> c.outcome,
                ret |-> c.ret]

\* The call as a step of the program. The model follows the calls that leave
\* at most MaxSaves saves behind.
update_preferences_step(c) ==
    /\ c.saves <= MaxSaves
    /\ UserPrefs' = c.UserPrefs
    /\ GroupPrefs' = c.GroupPrefs
    /\ saves' = c.saves
    /\ UNCHANGED <<Backend, Notification, SentNotification, groups, user_perms,
                   call, procs>>

\* the call, its result discarded by the caller
update_preferences(name, subject, prefs_dict) ==
    /\ update_preferences_step(update_preferences_call(name, subject, prefs_dict))
    /\ UNCHANGED last

\* the call, its result kept by the caller
update_preferences_observed(name, subject, prefs_dict) ==
    /\ update_preferences_step(update_preferences_call(name, subject, prefs_dict))
    /\ last' = Returned(update_preferences_call(name, subject, prefs_dict))

----------------------------------------------------------------------------
(* The catalogue and preference operations, one request at a time *)

Next ==
    \/ create_backends
    \/ \E b \in BackendNames, v \in BOOLEAN : set_enabled(b, v)
    \/ \E name \in NotifNames,
          permissions \in SUBSET (Perms \cup {UnknownPerm}),
          backends \in SUBSET BackendNames,
          default_notify \in BOOLEAN :
            create_notification(name, permissions, backends, default_notify)
    \/ \E name \in NotifNames, subject \in Subjects, prefs_dict \in PrefsDicts :
            update_preferences(name, subject, prefs_dict)

Spec == Init /\ [][Next]_vars
----------------------------------------------------------------------------
(* The preference operations seen from their caller: the same program, the *)
(* caller keeping what each update_preferences call returned or raised     *)

\* backend.delete() with no pre_delete receiver connected
backend_pre_delete_absent(b) == "none"

\* the pre_delete receiver of Backend: it raises for every instance
backend_pre_delete(b) == "PermissionDenied"

\* a table without the rows whose key names the backend
WithoutBackend(tbl, b) == [k \in {h \in DOMAIN tbl : h[3] # b} |-> tbl[k]]

\* backend.delete(): the pre_delete signal is sent before any row is
\* deleted; had the receiver returned, the row would go, and with it the
\* rows that reference it with on_delete=CASCADE and its rows in the
\* backends relation of the notifications
Backend_delete(b) ==
    IF backend_pre_delete(b) # "none"
    THEN [exc |-> backend_pre_delete(b), Backend |-> Backend,
          Notification |-> Notification, UserPrefs |-> UserPrefs,
          GroupPrefs |-> GroupPrefs, SentNotification |-> SentNotification]
    ELSE [exc |-> "none",
          Backend |-> [c \in DOMAIN Backend \ {b} |-> Backend[c]],
          Notification |-> [n \in DOMAIN Notification |->
                               [Notification[n] EXCEPT !.backends = @ \ {b}]],
          UserPrefs |-> WithoutBackend(UserPrefs, b),
          GroupPrefs |-> WithoutBackend(GroupPrefs, b),
          SentNotification |-> SelectSeq(SentNotification,
                                         LAMBDA row : row.backend # b)]

\* the operator deletes a Backend row; the caller keeps what the call raised
delete_backend(b) ==
    /\ b \in DOMAIN Backend
    /\ Backend' = Backend_delete(b).Backend
    /\ Notification' = Backend_delete(b).Notification
    /\ UserPrefs' = Backend_delete(b).UserPrefs
    /\ GroupPrefs' = Backend_delete(b).GroupPrefs
    /\ SentNotification' = Backend_delete(b).SentNotification
    /\ last' = [op |-> "Backend.delete", subject |-> b,
                outcome |-> IF Backend_delete(b).exc = "none"
                            THEN "ok" ELSE Backend_delete(b).exc,
                ret |-> EmptyDict]
    /\ UNCHANGED <<groups, user_perms, saves, call, procs>>

NextPrefs ==
    \/ create_backends
    \/ \E name \in NotifNames, permissions \in SUBSET Perms :
            create_notification(name, permissions, {}, TRUE)
    \/ \E name \in NotifNames, subject \in Subjects, prefs_dict \in PrefsDicts :
            update_preferences_observed(name, subject, prefs_dict)
    \/ \E b \in BackendNames : delete_backend(b)

SpecPrefs == Init /\ [][NextPrefs]_vars
----------------------------------------------------------------------------
(* The catalogue seen from its callers: create_backends at each start of   *)
(* the process, the operator's edits of Backend rows, and                  *)
(* create_notification, the caller keeping the arguments of the call and   *)
(* the tables the call found                                               *)

\* the row of the notification in a table, as a sequence: empty when the
\* name is not defined
RowOf(tbl, name) == IF name \in DOMAIN tbl THEN <<tbl[name]>> ELSE <<>>

\* the enabled flag of each row of the Backend table
EnabledFlags == [b \in DOMAIN Backend |-> Backend[b].enabled]

\* what is kept of a call of the catalogue: its arguments and what it found
Called(op, name, args, before) ==
    [op |-> op, subject |-> name, outcome |-> "ok", ret |-> EmptyDict,
     args |-> args, before |-> before]

create_backends_observed ==
    /\ create_backends_step
    /\ last' = Called("create_backends", None, EmptyDict, [Backend |-> Backend])

create_notification_observed(name, permissions, backends, default_notify) ==
    /\ create_notification_step(name, permissions, backends, default_notify)
    /\ last' = Called("create_notification", name,
                      [permissions |-> permissions, backends |-> backends,
                       default_notify |-> default_notify],
                      [enabled |-> EnabledFlags,
                       Notification |-> RowOf(Notification, name)])

NextCatalogue ==
    \/ create_backends_observed
    \/ \E b \in BackendNames, v \in BOOLEAN : set_enabled(b, v)
    \/ \E b \in BackendNames :
          \E v \in {DisplayNames[b], "edited"} : set_display_name(b, v)
    \/ \E name \in NotifNames,
          permissions \in SUBSET (Perms \cup {UnknownPerm}),
          backends \in SUBSET BackendNames,
          default_notify \in BOOLEAN :
            create_notification_observed(name, permissions, backends, default_notify)

SpecCatalogue == Init /\ [][NextCatalogue]_vars
----------------------------------------------------------------------------
(* shortcuts.send_notification, Notification.send and Backend.send, one    *)
(* step per statement that another step can observe                        *)

\* what backendobject.send(user, context) can do: return True, return False
\* (EmailBackend.send catches TemplateDoesNotExist and SMTPException), or
\* raise any other exception, which EmailBackend.send does not catch
SendResults == {"True", "False", "raise"}

\* the `users` argument: one user, or a sequence of users without repetition
RecipientLists ==
    {us \in UNION {[1..k -> Users] : k \in 1..Cardinality(Users)} :
        \A i, j \in DOMAIN us : i # j => us[i] # us[j]}
\* the argument as the call receives it: whether it is iterable, and its value
OneUser(u) == [iterable |-> FALSE, value |-> u]
UserList(us) == [iterable |-> TRUE, value |-> us]

\* `if not isinstance(users, Iterable): users = [users]`
as_list(users) == IF ~ users.iterable THEN <<users.value>> ELSE users.value

Idle == [pc |-> "idle"]
CallOver == call.pc \in {"idle", "returned", "raised"}

\* Notification.objects.get(name=name) that finds a row for every name
Notification_objects_get_any(name) == "none"

\* Notification.objects.get(name=name): the exception it raises, or "none"
Notification_objects_get(name) ==
    IF name \notin DOMAIN Notification THEN "Notification.DoesNotExist" ELSE "none"

\* the `context` argument: None, or the caller's dict with an item in it
NoContext == [given |-> FALSE, dict |-> EmptyDict]
Contexts == {NoContext, [given |-> TRUE, dict |-> ("site" :> "example")]}

\* BaseBackend.send: `if not context: self.context = {}` makes a new dict;
\* else self.context is the caller's dict, and self.context.update({"user":
\* user}) writes into it. The caller's dict after the call:
BaseBackend_send(context, user) ==
    IF ~ context.given \/ context.dict = EmptyDict
    THEN context
    ELSE [context EXCEPT !.dict = ("user" :> user) @@ context.dict]

\* a notification name that is not defined
UnknownName == "nope"

\* send_notification(name, users, context=context): Notification.objects.get,
\* then the start of Notification.send
send_notification(name, users, context) ==
    /\ CallOver
    /\ Len(SentNotification) + Len(as_list(users)) * Cardinality(BackendNames) <= MaxSent
    /\ LET frame == [pc |-> "for_user", n |-> name, users |-> as_list(users),
                     i |-> 1, queue |-> <<>>, attempts |-> <<>>,
                     start |-> Len(SentNotification), exc |-> "none",
                     given |-> context, context |-> context]
       IN  call' = IF Notification_objects_get(name) # "none"
                   THEN \* Notification.send is not entered
                        [frame EXCEPT !.pc = "raised", !.users = <<>>,
                                      !.exc = Notification_objects_get(name)]
                   ELSE frame
    /\ UNCHANGED <<Backend, Notification, UserPrefs, GroupPrefs, SentNotification,
                   groups, user_perms, saves, last, procs>>

\* `for user in users:` and the evaluation of self.get_backends(user); past
\* the last user the call returns None
send_for_user ==
    /\ call.pc = "for_user"
    /\ IF call.i > Len(call.users)
       THEN call' = [call EXCEPT !.pc = "returned"]
       ELSE LET r == get_backends(call.n, call.users[call.i])
            IN  call' = IF r.exc # "none"
                        THEN [call EXCEPT !.pc = "raised", !.exc = r.exc]
                        ELSE IF r.backends = {}
                        THEN [call EXCEPT !.i = call.i + 1]
                        ELSE [call EXCEPT !.pc = "backend_send",
                                          !.queue = Ordered(r.backends)]
    /\ UNCHANGED <<Backend, Notification, UserPrefs, GroupPrefs, SentNotification,
                   groups, user_perms, saves, last, procs>>

\* Backend.send, its first half: sent_success = backendobject.send(user, context)
backend_send(result) ==
    /\ call.pc = "backend_send"
    /\ LET attempt == [user |-> call.users[call.i], backend |-> Head(call.queue),
                       result |-> result]
       IN  call' = [call EXCEPT
                      !.pc = IF result = "raise" THEN "raised" ELSE "create_sent",
                      !.exc = IF result = "raise" THEN "Exception" ELSE call.exc,
                      !.attempts = Append(call.attempts, attempt),
                      !.context = BaseBackend_send(call.context, call.users[call.i])]
    /\ UNCHANGED <<Backend, Notification, UserPrefs, GroupPrefs, SentNotification,
                   groups, user_perms, saves, last, procs>>

\* Backend.send, its second half: SentNotification.objects.create(...,
\* success=sent_success); then the next backend, or the next user
create_sent ==
    /\ call.pc = "create_sent"
    /\ LET attempt == call.attempts[Len(call.attempts)]
       IN  SentNotification' =
               Append(SentNotification,
                      [user |-> attempt.user, notification |-> call.n,
                       backend |-> attempt.backend,
                       success |-> (attempt.result = "True")])
    /\ call' = IF Len(call.queue) > 1
               THEN [call EXCEPT !.pc = "backend_send", !.queue = Tail(call.queue)]
               ELSE [call EXCEPT !.pc = "for_user", !.queue = <<>>,
                                 !.i = call.i + 1]
    /\ UNCHANGED <<Backend, Notification, UserPrefs, GroupPrefs,
                   groups, user_perms, saves, last, procs>>

\* The tables a send can find: the backends registered, the last of
\* BACKEND_CLASSES enabled and the others enabled or disabled; the
\* notification defined with every backend; at most MaxRows preference rows
UserKeys == Users \X NotifNames \X BackendNames
GroupKeys == Groups \X NotifNames \X BackendNames
PrefTables(keys) ==
    UNION {[K -> [notify : BOOLEAN]] :
              K \in {K \in SUBSET keys : Cardinality(K) <= MaxRows}}

InitSend ==
    /\ \E e \in {f \in [BackendNames -> BOOLEAN] : f[BACKEND_CLASSES[2]]} :
           Backend = [b \in BackendNames |->
                        [enabled |-> e[b], display_name |-> DisplayNames[b]]]
    /\ Notification \in [NotifNames -> [default_notify : BOOLEAN,
                                        permissions : SUBSET Perms,
                                        backends : {BackendNames}]]
    /\ UserPrefs \in PrefTables(UserKeys)
    /\ GroupPrefs \in PrefTables(GroupKeys)
    /\ Cardinality(DOMAIN UserPrefs) + Cardinality(DOMAIN GroupPrefs) <= MaxRows
    /\ saves = Cardinality(DOMAIN UserPrefs) + Cardinality(DOMAIN GroupPrefs)
    /\ SentNotification = <<>>
    /\ groups \in Memberships
    /\ user_perms \in Holdings
    /\ last = NoCall
    /\ call = Idle
    /\ procs = NoRequests

\* create_notification with the backends and the default the notification
\* has: a call that changes its permissions only
redefine_permissions(name, permissions) ==
    /\ CallOver
    /\ name \in DOMAIN Notification
    /\ Notification[name].backends # {}
    /\ create_notification(name, permissions, Notification[name].backends,
                           Notification[name].default_notify)

NextSend ==
    \/ \E name \in NotifNames \cup {UnknownName}, u \in Users, context \in Contexts :
            send_notification(name, OneUser(u), context)
    \/ \E name \in NotifNames \cup {UnknownName}, us \in RecipientLists,
          context \in Contexts :
            send_notification(name, UserList(us), context)
    \/ send_for_user
    \/ \E result \in SendResults : backend_send(result)
    \/ create_sent
    \/ \E name \in NotifNames, permissions \in SUBSET Perms :
            redefine_permissions(name, permissions)

SpecSend == InitSend /\ [][NextSend]_vars
----------------------------------------------------------------------------
(* Two update_preferences requests served at the same time, each for one   *)
(* item of a prefs_dict: the queries of update_user_prefs and              *)
(* update_group_prefs, one step per query                                  *)

Requests == {"r1", "r2"}
PrefSubjects == Users \cup Groups

\* the table a request's subject has its rows in
TableOf(subject) == IF subject \in Users THEN UserPrefs ELSE GroupPrefs

\* self.userprefs_set.get(user=user, backend=backend), or the groupprefs_set
\* one: the row is remembered, or DoesNotExist is; a row whose notify equals
\* the value ends the call
prefs_get(r) ==
    LET f == procs.frames[r]
        k == <<f.subject, f.n, f.key>>
    IN  /\ f.pc = "get"
        /\ procs' =
             IF k \notin DOMAIN TableOf(f.subject)
             THEN [procs EXCEPT !.frames[r].pc = "create"]
             ELSE IF TableOf(f.subject)[k].notify # f.value
             THEN [procs EXCEPT !.frames[r].pc = "save"]
             ELSE [procs EXCEPT !.frames[r].pc = "returned",
                                !.frames[r].outcome = "ok"]
        /\ UNCHANGED <<Backend, Notification, UserPrefs, GroupPrefs,
                       SentNotification, groups, user_perms, saves, last, call>>

\* UserPrefs.objects.create / GroupPrefs.objects.create: UserPrefs.save checks
\* the permissions; the INSERT of a triple that is in the table by now breaks
\* unique_together and raises IntegrityError
prefs_create(r) ==
    LET f == procs.frames[r]
        k == <<f.subject, f.n, f.key>>
        row == k :> [notify |-> f.value]
        denied == f.subject \in Users /\ UserPrefs_save(f.n, f.subject) # "none"
        ends(outcome, ret) ==
            procs' = [procs EXCEPT !.frames[r].pc =
                                       IF outcome = "ok" THEN "returned" ELSE "raised",
                                   !.frames[r].outcome = outcome,
                                   !.frames[r].ret = ret]
    IN  /\ f.pc = "create"
        /\ IF denied
           THEN ends("PermissionDenied", EmptyDict)
                /\ UNCHANGED <<UserPrefs, GroupPrefs, saves>>
           ELSE IF k \in DOMAIN TableOf(f.subject)
           THEN ends("IntegrityError", EmptyDict)
                /\ UNCHANGED <<UserPrefs, GroupPrefs, saves>>
           ELSE /\ ends("ok", f.key :> "created")
                /\ saves' = saves + 1
                /\ IF f.subject \in Users
                   THEN UserPrefs' = UserPrefs @@ row /\ UNCHANGED GroupPrefs
                   ELSE GroupPrefs' = GroupPrefs @@ row /\ UNCHANGED UserPrefs
        /\ UNCHANGED <<Backend, Notification, SentNotification, groups,
                       user_perms, last, call>>

\* userpref.notify = value; userpref.save(), or the grouppref ones: the UPDATE
\* of the row read before
prefs_save(r) ==
    LET f == procs.frames[r]
        k == <<f.subject, f.n, f.key>>
        denied == f.subject \in Users /\ UserPrefs_save(f.n, f.subject) # "none"
    IN  /\ f.pc = "save"
        /\ IF denied
           THEN /\ procs' = [procs EXCEPT !.frames[r].pc = "raised",
                                          !.frames[r].outcome = "PermissionDenied"]
                /\ UNCHANGED <<UserPrefs, GroupPrefs, saves>>
           ELSE /\ procs' = [procs EXCEPT !.frames[r].pc = "returned",
                                          !.frames[r].outcome = "ok",
                                          !.frames[r].ret = f.key :> "updated"]
                /\ saves' = saves + 1
                /\ IF f.subject \in Users
                   THEN /\ UserPrefs' = [UserPrefs EXCEPT ![k] = [notify |-> f.value]]
                        /\ UNCHANGED GroupPrefs
                   ELSE /\ GroupPrefs' = [GroupPrefs EXCEPT ![k] = [notify |-> f.value]]
                        /\ UNCHANGED UserPrefs
        /\ UNCHANGED <<Backend, Notification, SentNotification, groups,
                       user_perms, last, call>>

\* a request as it enters the loop of update_*_prefs
RequestFrames ==
    [subject : PrefSubjects, n : NotifNames, key : BackendNames, value : BOOLEAN,
     pc : {"get"}, outcome : {"none"}, ret : {EmptyDict}]

\* The backends are registered and the notification is defined; at most
\* MaxRows preference rows exist; both requests have been received. `base`
\* keeps the tables the requests found.
InitConc ==
    /\ Backend = saved_backends(EmptyDict)
    /\ Notification \in [NotifNames -> [default_notify : {TRUE},
                                        permissions : SUBSET Perms,
                                        backends : {BackendNames}]]
    /\ UserPrefs \in PrefTables(UserKeys)
    /\ GroupPrefs \in PrefTables(GroupKeys)
    /\ Cardinality(DOMAIN UserPrefs) + Cardinality(DOMAIN GroupPrefs) <= MaxRows
    /\ saves = Cardinality(DOMAIN UserPrefs) + Cardinality(DOMAIN GroupPrefs)
    /\ SentNotification = <<>>
    /\ groups \in Memberships
    /\ user_perms \in Holdings
    /\ last = NoCall
    /\ call = Idle
    /\ \E fs \in [Requests -> RequestFrames] :
           procs = [frames |-> fs, base |-> [user |-> UserPrefs, group |-> GroupPrefs]]

NextConc ==
    \/ \E r \in Requests : prefs_get(r)
    \/ \E r \in Requests : prefs_create(r)
    \/ \E r \in Requests : prefs_save(r)

SpecConc == InitConc /\ [][NextConc]_vars
----------------------------------------------------------------------------
(* Properties of the resolution, under Spec *)

\* the backends the notification allows whose row has enabled = True
AllowedEnabled(n) ==
    {b \in BackendNames :
        b \in Notification[n].backends /\ b \in DOMAIN Backend /\ Backend[b].enabled}

HasUserPref(u, n, c) == <<u, n, c>> \in DOMAIN UserPrefs
HasGroupPref(g, n, c) == <<g, n, c>> \in DOMAIN GroupPrefs

\* C1: whatever get_backends returns for a notification and a user is a subset
\* of the notification's backends whose enabled flag is true; a disabled
\* backend is never returned, whatever the preference rows say.
C1_ResolvedWithinAllowedEnabled ==
    \A n \in DOMAIN Notification, u \in Users :
        get_backends(n, u).backends \subseteq AllowedEnabled(n)

\* C1's case: a backend of the notification is disabled, the user holds a
\* UserPrefs row with notify = True for it, and get_backends returns the
\* other backend alone.
C1_Witness ==
    \E n \in DOMAIN Notification, u \in Users, b \in BackendNames :
        /\ b \in Notification[n].backends
        /\ b \in DOMAIN Backend /\ ~ Backend[b].enabled
        /\ HasUserPref(u, n, b) /\ UserPrefs[<<u, n, b>>].notify
        /\ get_backends(n, u).exc = "none"
        /\ get_backends(n, u).backends = Notification[n].backends \ {b}
        /\ get_backends(n, u).backends # {}

\* C2: when a UserPrefs row exists for (U, N, C), with C enabled and allowed,
\* C is among the backends get_backends returns iff the row's notify is true,
\* whatever the default, the user's groups and the GroupPrefs rows.
C2_UserPrefDecides ==
    \A n \in DOMAIN Notification, u \in Users, c \in BackendNames :
        (c \in AllowedEnabled(n) /\ HasUserPref(u, n, c))
            => (c \in get_backends(n, u).backends <=> UserPrefs[<<u, n, c>>].notify)

\* C3: for a user without a UserPrefs row for (N, C) who is in a group G with
\* a GroupPrefs row for (G, N, C), get_backends returns a set of backends (it
\* does not raise) and C is in it iff the row's notify is true.
C3_GroupPrefDecides ==
    \A n \in DOMAIN Notification, u \in Users, c \in BackendNames :
        \A g \in groups[u] :
            (c \in AllowedEnabled(n) /\ ~ HasUserPref(u, n, c) /\ HasGroupPref(g, n, c))
                => /\ get_backends(n, u).exc = "none"
                   /\ c \in get_backends(n, u).backends
                        <=> GroupPrefs[<<g, n, c>>].notify

\* C4: for a user with no UserPrefs row for (N, C) and no GroupPrefs row for
\* (N, C) in any group the user is in, C (enabled and allowed) is among the
\* backends get_backends returns iff N.default_notify is true, whatever rows
\* other users and other groups hold, also for a user in no group.
C4_DefaultDecides ==
    \A n \in DOMAIN Notification, u \in Users, c \in BackendNames :
        (/\ c \in AllowedEnabled(n)
         /\ ~ HasUserPref(u, n, c)
         /\ \A g \in groups[u] : ~ HasGroupPref(g, n, c))
            => (c \in get_backends(n, u).backends <=> Notification[n].default_notify)
----------------------------------------------------------------------------
(* Properties of the dispatch, under SpecSend *)

\* the send call has come to its end, by returning or by raising
CallEnded == call.pc \in {"returned", "raised"}

\* the rows the call has appended to SentNotification
NewRows == SubSeq(SentNotification, call.start + 1, Len(SentNotification))

\* how many of them are for the user and the backend
RowsFor(u, c) ==
    Cardinality({i \in DOMAIN NewRows : NewRows[i].user = u /\ NewRows[i].backend = c})

CallUsers == {call.users[i] : i \in DOMAIN call.users}

\* C5: a send call in which every backend send returned a boolean has, at its
\* end, appended exactly one SentNotification row for each recipient r and
\* each backend c that get_backends resolves for r, and no other row; each
\* row's success is the boolean the backend returned.
C5_DispatchComplete ==
    (CallEnded /\ \A i \in DOMAIN call.attempts : call.attempts[i].result # "raise")
        => /\ \A u \in CallUsers, c \in BackendNames :
                  RowsFor(u, c) = IF c \in get_backends(call.n, u).backends THEN 1 ELSE 0
           /\ \A i \in DOMAIN NewRows :
                  /\ NewRows[i].user \in CallUsers
                  /\ NewRows[i].user = call.attempts[i].user
                  /\ NewRows[i].backend = call.attempts[i].backend
                  /\ NewRows[i].success = (call.attempts[i].result = "True")

\* C6: when a delivery attempt of a send call fails (the backend returns
\* False, or an exception leaves it), the call still returns normally, the
\* failed attempt has its row with success = False, and every pair of a
\* recipient and a backend resolved for it has been attempted.
C6_FailureContained ==
    CallEnded =>
        \A i \in DOMAIN call.attempts :
            call.attempts[i].result # "True"
                => /\ call.pc = "returned"
                   /\ \E j \in DOMAIN NewRows :
                          /\ NewRows[j].user = call.attempts[i].user
                          /\ NewRows[j].backend = call.attempts[i].backend
                          /\ NewRows[j].success = FALSE
                   /\ \A u \in CallUsers :
                          \A c \in get_backends(call.n, u).backends :
                              \E k \in DOMAIN call.attempts :
                                  /\ call.attempts[k].user = u
                                  /\ call.attempts[k].backend = c
----------------------------------------------------------------------------
(* Properties of the preference upserts, under SpecPrefs: what             *)
(* update_user_prefs and update_group_prefs do from every reachable state  *)

\* the keys of a prefs_dict
KeysOf(prefs_dict) == {prefs_dict[i][1] : i \in DOMAIN prefs_dict}

\* the user's rows
RowsOfUser(u) == {k \in DOMAIN UserPrefs : k[1] = u}

\* the item would make update_user_prefs write: no row for the triple, or a
\* row with another value
WouldWrite(tbl, subject, n, item) ==
    \/ <<subject, n, item[1]>> \notin DOMAIN tbl
    \/ tbl[<<subject, n, item[1]>>].notify # item[2]

\* C7: when the user does not pass the notification's check_perms and the
\* prefs_dict names a backend for which the user has no UserPrefs row,
\* update_user_prefs raises PermissionDenied and the UserPrefs table is the
\* same after the call as before it: no row is created for any backend named.
C7_DeniedCreatesNothing ==
    \A n \in DOMAIN Notification, u \in Users, pd \in PrefsDicts :
        (/\ ~ check_perms(n, u)
         /\ \E i \in DOMAIN pd :
                pd[i][1] \in DOMAIN Backend /\ ~ HasUserPref(u, n, pd[i][1]))
            => LET st == update_user_prefs(UserPrefs, saves, n, u, pd)
               IN  /\ st.exc = "PermissionDenied"
                   /\ st.tbl = UserPrefs
                   /\ st.saves = saves

\* C7's case: update_preferences has just raised PermissionDenied for a user
\* who does not pass check_perms and has no UserPrefs row at all.
C7_Witness ==
    /\ last.op = "update_user_prefs"
    /\ last.outcome = "PermissionDenied"
    /\ last.subject \in Users
    /\ \A n \in DOMAIN Notification : ~ check_perms(n, last.subject)
    /\ RowsOfUser(last.subject) = {}
    /\ DOMAIN Backend = BackendNames

\* C8, as claimed: every update_user_prefs call for backends that exist,
\* made while the user does not pass check_perms, raises PermissionDenied,
\* whatever the values and whether or not the rows exist.
C8_DeniedOnEveryCall ==
    \A n \in DOMAIN Notification, u \in Users, pd \in PrefsDicts :
        (~ check_perms(n, u) /\ KeysOf(pd) \subseteq DOMAIN Backend)
            => update_user_prefs(UserPrefs, saves, n, u, pd).exc = "PermissionDenied"

\* C8, amended: an update_user_prefs call made while the user does not pass
\* check_perms raises PermissionDenied iff some item would write (its row
\* does not exist, or holds another value), and then reports nothing created
\* or updated; when every item equals the stored value the call runs no
\* permission check, returns the empty dict and writes nothing. Either way
\* the table is left as it was.
C8_DeniedOnEveryWrite ==
    \A n \in DOMAIN Notification, u \in Users, pd \in PrefsDicts :
        (~ check_perms(n, u) /\ KeysOf(pd) \subseteq DOMAIN Backend)
            => LET st == update_user_prefs(UserPrefs, saves, n, u, pd)
                   writes == \E i \in DOMAIN pd : WouldWrite(UserPrefs, u, n, pd[i])
               IN  /\ st.exc = IF writes THEN "PermissionDenied" ELSE "none"
                   /\ st.result = EmptyDict
                   /\ st.tbl = UserPrefs
                   /\ st.saves = saves

\* C8's case: a user who has a row for every backend, written while the user
\* passed check_perms, no longer passes it, and update_preferences has just
\* raised PermissionDenied on the change of one of these rows.
C8_Witness ==
    /\ last.op = "update_user_prefs"
    /\ last.outcome = "PermissionDenied"
    /\ last.subject \in Users
    /\ \A n \in DOMAIN Notification :
           /\ ~ check_perms(n, last.subject)
           /\ \A b \in BackendNames : HasUserPref(last.subject, n, b)
    /\ DOMAIN Backend = BackendNames

\* what a call that ended in frame st, from table tbl, reports for each item
\* and leaves in the table
ReportsPerItem(tbl, st, subject, n, pd) ==
    \A i \in DOMAIN pd :
        LET k == <<subject, n, pd[i][1]>>
        IN  /\ k \in DOMAIN st.tbl /\ st.tbl[k].notify = pd[i][2]
            /\ IF k \notin DOMAIN tbl
               THEN pd[i][1] \in DOMAIN st.result /\ st.result[pd[i][1]] = "created"
               ELSE IF tbl[k].notify # pd[i][2]
               THEN pd[i][1] \in DOMAIN st.result /\ st.result[pd[i][1]] = "updated"
               ELSE pd[i][1] \notin DOMAIN st.result

\* C9: an update_user_prefs or update_group_prefs call that returns reports
\* "created" for each triple that had no row, "updated" for each row whose
\* value differed, and leaves out each item equal to the stored value; it
\* saves once per reported item and not at all for the others. The same
\* prefs_dict applied again returns the empty dict, saves nothing and leaves
\* the table as it is.
C9_UnchangedIsNoWrite ==
    \A n \in DOMAIN Notification, pd \in PrefsDicts :
        /\ \A u \in Users :
              LET st == update_user_prefs(UserPrefs, saves, n, u, pd)
                  again == update_user_prefs(st.tbl, st.saves, n, u, pd)
              IN  st.exc = "none"
                    => /\ ReportsPerItem(UserPrefs, st, u, n, pd)
                       /\ st.saves = saves + Cardinality(DOMAIN st.result)
                       /\ DOMAIN st.result = {} => st.tbl = UserPrefs
                       /\ again.exc = "none" /\ again.result = EmptyDict
                       /\ again.tbl = st.tbl /\ again.saves = st.saves
        /\ \A g \in Groups :
              LET st == update_group_prefs(GroupPrefs, saves, n, g, pd)
                  again == update_group_prefs(st.tbl, st.saves, n, g, pd)
              IN  st.exc = "none"
                    => /\ ReportsPerItem(GroupPrefs, st, g, n, pd)
                       /\ st.saves = saves + Cardinality(DOMAIN st.result)
                       /\ DOMAIN st.result = {} => st.tbl = GroupPrefs
                       /\ again.exc = "none" /\ again.result = EmptyDict
                       /\ again.tbl = st.tbl /\ again.saves = st.saves

\* C9's case: update_preferences has just returned the empty dict for a
\* subject whose rows already held the values asked for (a prefs_dict has at
\* least one item), after two rows had been saved.
C9_Witness ==
    /\ last.op \in {"update_user_prefs", "update_group_prefs"}
    /\ last.outcome = "ok"
    /\ last.ret = EmptyDict
    /\ saves = 2
    /\ \/ Cardinality(RowsOfUser(last.subject)) = 2
       \/ Cardinality({k \in DOMAIN GroupPrefs : k[1] = last.subject}) = 2
----------------------------------------------------------------------------
(* Properties of two upserts in flight at once, under SpecConc *)

\* the two requests are for the same (subject, notification, backend)
SameTriple(f, g) == f.subject = g.subject /\ f.n = g.n /\ f.key = g.key

\* the request has returned or raised
RequestOver(f) == f.pc \in {"returned", "raised"}

\* the table the requests of this subject found
BaseOf(subject) == IF subject \in Users THEN procs.base.user ELSE procs.base.group

\* the table a request leaves when it runs alone, from get to its end
Alone(tbl, f) ==
    IF f.subject \in Users
    THEN update_user_prefs(tbl, 0, f.n, f.subject, <<<<f.key, f.value>>>>).tbl
    ELSE update_group_prefs(tbl, 0, f.n, f.subject, <<<<f.key, f.value>>>>).tbl

\* C10: when two upserts on the same (subject, notification, backend) have
\* both ended, however their steps interleaved, neither has raised
\* IntegrityError and the table is the one that running them one after the
\* other, in one of the two orders, leaves. (A table is keyed by the triple:
\* unique_together keeps a second row for it out, by the IntegrityError.)
C10_UpsertsSerialise ==
    \A r, s \in Requests :
        LET f == procs.frames[r]
            g == procs.frames[s]
        IN  (r # s /\ SameTriple(f, g) /\ RequestOver(f) /\ RequestOver(g))
                => /\ f.outcome # "IntegrityError"
                   /\ TableOf(f.subject) \in
                          {Alone(Alone(BaseOf(f.subject), f), g),
                           Alone(Alone(BaseOf(f.subject), g), f)}
----------------------------------------------------------------------------
(* Properties of the catalogue, under SpecCatalogue *)

\* the last call was create_notification
Defined == last.op = "create_notification"

\* the backends that were enabled when the last call began
EnabledBefore == {b \in DOMAIN last.before.enabled : last.before.enabled[b]}

\* C11: after create_notification(name, permissions=P, backends=CH, ...),
\* for permissions P that exist and registered backends CH, the notification
\* holds exactly the permissions P and the backends CH, whatever row the name
\* had before, and the table has its one row for the name and the rows it
\* had for other names; the same call made again while the Backend table is
\* as the first call found it leaves the table of notifications as it is.
C11_ReplacedNotMerged ==
    Defined =>
        LET n == last.subject
            a == last.args
        IN  /\ n \in DOMAIN Notification
            /\ DOMAIN Notification = {n} \cup
                   (IF last.before.Notification = <<>> THEN {} ELSE {n})
            /\ a.permissions \subseteq Perms
                  => Notification[n].permissions = a.permissions
            /\ (a.backends # {} /\ a.backends \subseteq DOMAIN last.before.enabled)
                  => Notification[n].backends = a.backends
            /\ Notification[n].default_notify = a.default_notify
            /\ EnabledFlags = last.before.enabled
                  => create_notification_on(Notification, n, a.permissions,
                                            a.backends, a.default_notify)
                        = Notification

\* C11's case: the notification had the permission and both backends; the
\* call named no permission and one backend, and the notification now has no
\* permission and that backend only.
C11_Witness ==
    /\ Defined
    /\ last.before.Notification # <<>>
    /\ last.before.Notification[1].permissions = Perms
    /\ last.before.Notification[1].backends = BackendNames
    /\ last.args.permissions = {}
    /\ last.args.backends = {"email"}
    /\ Notification[last.subject].permissions = {}
    /\ Notification[last.subject].backends = {"email"}

\* C12: create_notification with `backends` omitted gives the notification
\* exactly the backends that were enabled when the call began, and they stay
\* its backends while rows of Backend are enabled, disabled or registered:
\* a step changes a notification only if it is a create_notification call
\* for it.
C12_DefaultIsSnapshot ==
    /\ []((Defined /\ last.args.backends = {})
             => Notification[last.subject].backends = EnabledBefore)
    /\ [][\A n \in DOMAIN Notification :
               Notification'[n] # Notification[n]
                   => /\ last' # last
                      /\ last'.op = "create_notification"
                      /\ last'.subject = n]_vars

\* C12's case: the notification was defined with `backends` omitted while
\* both backends were enabled; one has been disabled since, and the
\* notification still has both.
C12_Witness ==
    /\ Defined
    /\ last.args.backends = {}
    /\ EnabledBefore = BackendNames
    /\ \E b \in BackendNames : ~ Backend[b].enabled
    /\ Notification[last.subject].backends = BackendNames

\* the last call named a permission that does not exist or a backend that
\* has no row
NamedUnknown ==
    \/ ~ (last.args.permissions \subseteq Perms)
    \/ ~ (last.args.backends \subseteq DOMAIN last.before.enabled)

\* C13: a create_notification call that names a permission that does not
\* exist, or a backend that has no Backend row, raises a validation error and
\* leaves the notification as it was: not created, not modified.
C13_UnknownNamesRejected ==
    (Defined /\ NamedUnknown)
        => /\ last.outcome = "ValidationError"
           /\ RowOf(Notification, last.subject) = last.before.Notification

\* C14: from the Backend table that any sequence of create_backends runs and
\* operator edits leaves, a create_backends run leaves one row per class of
\* BACKEND_CLASSES, with the attributes of the class, and with the enabled
\* flag the row had (True for a row it creates): it never enables a disabled
\* row; a second run changes nothing.
C14_BootstrapKeepsEnabled ==
    /\ DOMAIN Backend \in {{}, BackendNames}
    /\ \A after \in {saved_backends(Backend)} :
           /\ DOMAIN after = BackendNames
           /\ \A b \in BackendNames :
                  /\ after[b].display_name = DisplayNames[b]
                  /\ after[b].enabled =
                         (IF b \in DOMAIN Backend THEN Backend[b].enabled ELSE TRUE)
           /\ saved_backends(after) = after

\* C14's case: create_backends ran on a table in which the operator had
\* disabled a backend and edited its display name; the row is still
\* disabled and has the display name of its class again.
C14_Witness ==
    /\ last.op = "create_backends"
    /\ \E b \in DOMAIN last.before.Backend :
           /\ ~ last.before.Backend[b].enabled
           /\ last.before.Backend[b].display_name = "edited"
           /\ ~ Backend[b].enabled
           /\ Backend[b].display_name = DisplayNames[b]
----------------------------------------------------------------------------
(* Properties of the deletion of a Backend row, under SpecPrefs *)

\* a notification has the backend among its backends, or a preference row
\* names it
Referenced(b) ==
    \/ \E n \in DOMAIN Notification : b \in Notification[n].backends
    \/ \E k \in DOMAIN UserPrefs : k[3] = b
    \/ \E k \in DOMAIN GroupPrefs : k[3] = b

\* C15: the deletion of a Backend row that a notification or a preference
\* row references raises, and it leaves the Backend table, the
\* notifications and their backends, the preference rows and the
\* SentNotification rows as they were.
C15_DeleteRefused ==
    \A b \in DOMAIN Backend :
        Referenced(b)
            => \A d \in {Backend_delete(b)} :
                   /\ d.exc # "none"
                   /\ d.Backend = Backend
                   /\ d.Notification = Notification
                   /\ d.UserPrefs = UserPrefs
                   /\ d.GroupPrefs = GroupPrefs
                   /\ d.SentNotification = SentNotification

\* C15's case: the deletion of a backend that the notification, a UserPrefs
\* row and a GroupPrefs row reference has just raised, and all of them are
\* still there.
C15_Witness ==
    /\ last.op = "Backend.delete"
    /\ last.outcome = "PermissionDenied"
    /\ last.subject \in DOMAIN Backend
    /\ \E n \in DOMAIN Notification : last.subject \in Notification[n].backends
    /\ \E k \in DOMAIN UserPrefs : k[3] = last.subject
    /\ \E k \in DOMAIN GroupPrefs : k[3] = last.subject
----------------------------------------------------------------------------
(* Properties of the dispatch and the permissions, the lookup of the       *)
(* notification, the order of send and record, and the context, under      *)
(* SpecSend                                                                *)

\* the step changes the permissions of a notification and leaves alone
\* everything else that get_backends reads
OnlyPermissionsChange ==
    /\ Notification' # Notification
    /\ Backend' = Backend
    /\ UserPrefs' = UserPrefs
    /\ GroupPrefs' = GroupPrefs
    /\ groups' = groups
    /\ DOMAIN Notification' = DOMAIN Notification
    /\ \A n \in DOMAIN Notification :
           /\ Notification'[n].backends = Notification[n].backends
           /\ Notification'[n].default_notify = Notification[n].default_notify

\* C16: a step that changes the permissions of a notification and nothing
\* else that get_backends reads (so that a user passes check_perms before
\* it and not after it, or the reverse) leaves get_backends as it was for
\* every notification and user; and a send call that has returned has
\* appended one row for each recipient and each backend resolved for it,
\* whether or not the recipient passes check_perms.
C16_PermissionsDoNotGateDelivery ==
    /\ [][OnlyPermissionsChange
             => \A n \in DOMAIN Notification, u \in Users :
                    get_backends(n, u)' = get_backends(n, u)]_vars
    /\ [](call.pc = "returned"
             => \A u \in CallUsers, c \in BackendNames :
                    RowsFor(u, c) =
                        IF c \in get_backends(call.n, u).backends THEN 1 ELSE 0)

\* C16's case: a send call has returned after it appended a row for a
\* recipient who does not pass check_perms of the notification.
C16_Witness ==
    /\ call.pc = "returned"
    /\ \E u \in CallUsers :
           /\ ~ check_perms(call.n, u)
           /\ \E c \in BackendNames : RowsFor(u, c) = 1

\* C17: a send_notification call for a name that is not defined raises
\* Notification.DoesNotExist with no backend send attempted and no
\* SentNotification row appended.
C17_UnknownNameRaisesFirst ==
    (call.pc # "idle" /\ call.n \notin DOMAIN Notification)
        => /\ call.pc = "raised"
           /\ call.exc = "Notification.DoesNotExist"
           /\ call.attempts = <<>>
           /\ Len(SentNotification) = call.start

\* C17's case: after earlier calls appended rows, a call for a name that is
\* not defined has raised.
C17_Witness ==
    /\ call.pc = "raised"
    /\ call.exc = "Notification.DoesNotExist"
    /\ call.n = UnknownName
    /\ Len(SentNotification) > 0

\* C18: during a send call the rows appended are those of the attempts whose
\* backend send has returned, one row each, in the order of the attempts (no
\* row before its send has returned), and when the call has ended every
\* attempt that was started has its row.
C18_RecordAfterEachAttempt ==
    call.pc # "idle"
        => /\ Len(NewRows) =
                  Len(call.attempts) - (IF call.pc = "create_sent" THEN 1 ELSE 0)
           /\ \A i \in DOMAIN NewRows :
                  /\ NewRows[i].user = call.attempts[i].user
                  /\ NewRows[i].backend = call.attempts[i].backend
           /\ CallEnded => Len(NewRows) = Len(call.attempts)

\* C20: at every point of a send call, and so at the start of each attempt
\* and at the end of the call, the caller's context holds what it held when
\* the call began.
C20_ContextUntouched ==
    call.pc # "idle" => call.context = call.given
----------------------------------------------------------------------------
(* Properties of get_user_prefs, under Spec *)

\* C19: get_user_prefs returns a dict whose keys are the enabled backends of
\* the notification, with True for a backend iff get_backends returns it;
\* a backend for which the user has no UserPrefs row and none of the user's
\* groups has a GroupPrefs row maps to default_notify.
C19_PrefsViewIsResolved ==
    \A n \in DOMAIN Notification, u \in Users :
        \A view \in {get_user_prefs(n, u)} :
            /\ view.exc = "none"
            /\ DOMAIN view.dict = AllowedEnabled(n)
            /\ \A c \in AllowedEnabled(n) :
                   /\ view.dict[c] <=> c \in get_backends(n, u).backends
                   /\ (/\ ~ HasUserPref(u, n, c)
                       /\ \A g \in groups[u] : ~ HasGroupPref(g, n, c))
                          => (view.dict[c] <=> Notification[n].default_notify)
----------------------------------------------------------------------------
(* Sends with edits between them: a send_notification call for one user    *)
(* runs to its end, every backend send delivering; the operator or a user  *)
(* changes an enabled flag or a preference; the next call runs             *)

\* the tables before the first send: every backend registered and enabled,
\* the notification defined with every backend, no preference row
InitResend ==
    /\ Backend = saved_backends(EmptyDict)
    /\ Notification \in [NotifNames -> [default_notify : BOOLEAN,
                                        permissions : SUBSET Perms,
                                        backends : {BackendNames}]]
    /\ UserPrefs = EmptyDict
    /\ GroupPrefs = EmptyDict
    /\ saves = 0
    /\ SentNotification = <<>>
    /\ groups \in Memberships
    /\ user_perms \in Holdings
    /\ last = NoCall
    /\ call = Idle
    /\ procs = NoRequests

\* the operator's edit of an enabled flag, made after a send call has ended
\* and before the next one begins
set_enabled_between_sends(b, v) ==
    /\ CallEnded
    /\ set_enabled(b, v)

\* an update_preferences call made after a send call has ended and before
\* the next one begins
update_preferences_between_sends(name, subject, prefs_dict) ==
    /\ CallEnded
    /\ update_preferences(name, subject, prefs_dict)

NextResend ==
    \/ \E name \in NotifNames, u \in Users :
            send_notification(name, OneUser(u), NoContext)
    \/ send_for_user
    \/ \E result \in {"True"} : backend_send(result)
    \/ create_sent
    \/ \E b \in BackendNames, v \in BOOLEAN : set_enabled_between_sends(b, v)
    \/ \E name \in NotifNames, subject \in Users \cup Groups,
          prefs_dict \in PrefsDicts :
            update_preferences_between_sends(name, subject, prefs_dict)

SpecResend == InitResend /\ [][NextResend]_vars
----------------------------------------------------------------------------
(* Properties of a send among edits, under SpecResend *)

\* the step is one of a send call
SendStep == call' # call

\* the rows of the table before the step are its first rows after it, as
\* they were
LogKept ==
    /\ Len(SentNotification') >= Len(SentNotification)
    /\ SubSeq(SentNotification', 1, Len(SentNotification)) = SentNotification

\* the call has ended with every backend send it made returned
EndedWithoutRaise ==
    /\ CallEnded
    /\ call.n \in DOMAIN Notification
    /\ \A i \in DOMAIN call.attempts : call.attempts[i].result # "raise"

\* the rows of the call are those the tables ask for: no row for a backend
\* that is disabled or not allowed, and for an enabled and allowed backend
\* one row iff the recipient's UserPrefs row says notify, else iff the
\* GroupPrefs row of a group of the recipient says notify, else iff
\* default_notify
RowsAsTablesAsk ==
    \A u \in CallUsers, c \in BackendNames :
        /\ c \notin AllowedEnabled(call.n) => RowsFor(u, c) = 0
        /\ (c \in AllowedEnabled(call.n) /\ HasUserPref(u, call.n, c))
               => (RowsFor(u, c) = 1 <=> UserPrefs[<<u, call.n, c>>].notify)
        /\ \A g \in groups[u] :
               (/\ c \in AllowedEnabled(call.n)
                /\ ~ HasUserPref(u, call.n, c)
                /\ HasGroupPref(g, call.n, c))
                   => (RowsFor(u, c) = 1 <=> GroupPrefs[<<g, call.n, c>>].notify)
        /\ (/\ c \in AllowedEnabled(call.n)
            /\ ~ HasUserPref(u, call.n, c)
            /\ \A g \in groups[u] : ~ HasGroupPref(g, call.n, c))
               => (RowsFor(u, c) = 1 <=> Notification[call.n].default_notify)

\* C21: a step of a send call leaves Backend, Notification, UserPrefs and
\* GroupPrefs as they were, and every step keeps the SentNotification rows
\* that were there, unmodified and in place; and when a send call ends, with
\* every backend send returned, the rows it appended are resolved from the
\* tables as the edits made since the send before it left them.
C21_SendOnlyAppendsAndReResolves ==
    /\ [][LogKept]_vars
    /\ [][SendStep => /\ Backend' = Backend
                      /\ Notification' = Notification
                      /\ UserPrefs' = UserPrefs
                      /\ GroupPrefs' = GroupPrefs]_vars
    /\ [][(SendStep /\ EndedWithoutRaise') => RowsAsTablesAsk']_vars

====
